---------------------------- MODULE Spec2Model ----------------------------
(***************************************************************************)
(* Model of .github/wasi_testsuite_adapter.py: the adapter that turns the  *)
(* wasi-testsuite command line into a wazero command line, runs wazero as  *)
(* a child process and passes on its exit code (or prints its version).    *)
(*                                                                         *)
(* A string is a sequence of one-character strings, so that tokenizing,    *)
(* stripping and path splitting are computed character by character.  An   *)
(* optional value is a sequence of length 0 (None) or 1 (the value).       *)
(***************************************************************************)
EXTENDS Integers, Sequences, FiniteSets

VARIABLES
    pc,             \* position in the module body
    environ,        \* os.environ's TEST_RUNTIME_EXE: None when unset
    args,           \* the argparse Namespace of line 19
    getcwd,         \* the adapter process's current working directory
    target_stdout,  \* what `<target> version` writes to its standard output
    WAZERO,         \* line 10, None before it ran
    TEST_DIR,       \* line 31, None before it ran
    PROG,           \* lines 39-46, None before they ran
    calls,          \* the subprocess.run calls made so far, in order
    launched,       \* the number of child processes that were started
    returncode,     \* the terminated child's returncode, None before
    stdout,         \* what the adapter itself printed
    exitStatus      \* the adapter's exit status, None while it runs

vars == <<pc, environ, args, getcwd, target_stdout, WAZERO, TEST_DIR, PROG,
          calls, launched, returncode, stdout, exitStatus>>

None == <<>>
Some(x) == <<x>>

-----------------------------------------------------------------------------
(* Bounds of the model. *)

MaxCfgLen == 3      \* characters of TEST_RUNTIME_EXE
MaxOutLen == 5      \* characters the version child writes
MaxPathLen == 3     \* characters of --test-file
MaxList == 2        \* occurrences of each of --arg, --env, --dir

Strings(chars, n) == UNION {[1..k -> chars] : k \in 0..n}

-----------------------------------------------------------------------------
(* The literal tokens of the source. *)

Wazero == <<"w", "a", "z", "e", "r", "o">>
VersionCmd == <<"v", "e", "r", "s", "i", "o", "n">>
RunCmd == <<"r", "u", "n">>
HostLogging == <<"-", "h", "o", "s", "t", "l", "o", "g", "g", "i", "n", "g",
                 "=", "f", "i", "l", "e", "s", "y", "s", "t", "e", "m">>
EnvFlag == <<"-", "e", "n", "v", "=">>
MountFlag == <<"-", "m", "o", "u", "n", "t", "=">>
Separator == <<"-", "-">>
Dev == <<"d", "e", "v">>
ZeroVersion == <<"0", ".", "0", ".", "0">>

-----------------------------------------------------------------------------
(* shlex.split(s): shlex in POSIX mode with whitespace_split and no        *)
(* comment characters.  The lexer states are those of shlex.read_token:    *)
(* "sp" between tokens, "a" inside a word, "sq"/"dq" inside quotes and     *)
(* "esc" after a backslash (escapedstate is the state to return to).       *)

ShlexWhitespace == {" ", "\t", "\r", "\n"}
ShlexQuotes == {"'", "\""}
ShlexEscape == "\\"

QuoteState(c) == IF c = "'" THEN "sq" ELSE "dq"
QuoteChar(state) == IF state = "sq" THEN "'" ELSE "\""

RECURSIVE ShlexLex(_, _, _, _, _, _, _)
ShlexLex(s, i, state, escapedstate, token, quoted, out) ==
    IF i > Len(s)
    THEN CASE state = "sp" -> [ok |-> TRUE, tokens |-> out]
           [] state = "a" ->
                [ok |-> TRUE,
                 tokens |-> IF token # <<>> \/ quoted THEN Append(out, token) ELSE out]
           [] OTHER -> [ok |-> FALSE, tokens |-> <<>>]
    ELSE LET c == s[i] IN
         CASE state = "sp" ->
                IF c \in ShlexWhitespace
                THEN ShlexLex(s, i + 1, "sp", escapedstate, <<>>, FALSE, out)
                ELSE IF c = ShlexEscape
                THEN ShlexLex(s, i + 1, "esc", "a", <<>>, FALSE, out)
                ELSE IF c \in ShlexQuotes
                THEN ShlexLex(s, i + 1, QuoteState(c), escapedstate, <<>>, FALSE, out)
                ELSE ShlexLex(s, i + 1, "a", escapedstate, <<c>>, FALSE, out)
           [] state = "a" ->
                IF c \in ShlexWhitespace
                THEN IF token # <<>> \/ quoted
                     THEN ShlexLex(s, i + 1, "sp", escapedstate, <<>>, FALSE,
                                   Append(out, token))
                     ELSE ShlexLex(s, i + 1, "sp", escapedstate, <<>>, FALSE, out)
                ELSE IF c \in ShlexQuotes
                THEN ShlexLex(s, i + 1, QuoteState(c), escapedstate, token, quoted, out)
                ELSE IF c = ShlexEscape
                THEN ShlexLex(s, i + 1, "esc", "a", token, quoted, out)
                ELSE ShlexLex(s, i + 1, "a", escapedstate, Append(token, c), quoted, out)
           [] state \in {"sq", "dq"} ->
                IF c = QuoteChar(state)
                THEN ShlexLex(s, i + 1, "a", escapedstate, token, TRUE, out)
                ELSE IF c = ShlexEscape /\ state = "dq"
                THEN ShlexLex(s, i + 1, "esc", state, token, TRUE, out)
                ELSE ShlexLex(s, i + 1, state, escapedstate, Append(token, c), TRUE, out)
           [] OTHER -> \* state = "esc"
                IF escapedstate = "dq" /\ c # ShlexEscape /\ c # "\""
                THEN ShlexLex(s, i + 1, escapedstate, escapedstate,
                              token \o <<ShlexEscape, c>>, quoted, out)
                ELSE ShlexLex(s, i + 1, escapedstate, escapedstate,
                              Append(token, c), quoted, out)

ShlexSplit(s) == ShlexLex(s, 1, "sp", "sp", <<>>, FALSE, <<>>)

(* os.getenv("TEST_RUNTIME_EXE", "wazero"): the default only when unset. *)
Getenv(value, default) == IF value = None THEN default ELSE value[1]

(* Line 10: the tokens of the target invocation, or a ValueError. *)
ResolveWazero(value) == ShlexSplit(Getenv(value, Wazero))

-----------------------------------------------------------------------------
(* str.strip(): leading and trailing whitespace removed. *)

StrWhitespace == {" ", "\t", "\n", "\r", "\f"}

RECURSIVE LStrip(_)
LStrip(s) == IF s # <<>> /\ Head(s) \in StrWhitespace THEN LStrip(Tail(s)) ELSE s

RECURSIVE RStrip(_)
RStrip(s) ==
    IF s # <<>> /\ s[Len(s)] \in StrWhitespace
    THEN RStrip(SubSeq(s, 1, Len(s) - 1))
    ELSE s

Strip(s) == RStrip(LStrip(s))

(* A bug: every version that starts with the placeholder is replaced. *)
NormalizeVersionPrefix(version) ==
    IF Len(version) >= 3 /\ SubSeq(version, 1, 3) = Dev THEN ZeroVersion ELSE version

(* Lines 25-26: the placeholder version is replaced. *)
NormalizeVersion(version) == IF version = Dev THEN ZeroVersion ELSE version

(* Line 27: print("wazero", version) writes the two, a space between them, *)
(* and a newline.                                                          *)
PrintVersion(version) == Wazero \o <<" ">> \o version \o <<"\n">>

-----------------------------------------------------------------------------
(* os.path.dirname(p) of posixpath. *)

RECURSIVE RFind(_, _)
RFind(p, i) == IF i = 0 \/ p[i] = "/" THEN i ELSE RFind(p, i - 1)

RECURSIVE RStripSep(_)
RStripSep(s) ==
    IF s # <<>> /\ s[Len(s)] = "/" THEN RStripSep(SubSeq(s, 1, Len(s) - 1)) ELSE s

(* A bug: the head cut before the last separator, the root lost. *)
DirnameBeforeSeparator(p) ==
    IF RFind(p, Len(p)) = 0 THEN <<>> ELSE SubSeq(p, 1, RFind(p, Len(p)) - 1)

Dirname(p) ==
    LET head == SubSeq(p, 1, RFind(p, Len(p)))
    IN  IF head # <<>> /\ (\E k \in 1..Len(head) : head[k] # "/")
        THEN RStripSep(head)
        ELSE head


-----------------------------------------------------------------------------
(* Lines 30-46: the translation of the parsed request. *)

(* A bug: the mounts resolved against the child's directory. *)
HostDirOfTestFile == Dirname(args.test_file[1])

(* Line 36: cwd = os.getcwd(), the adapter's own directory. *)
HostDir == getcwd

(* A bug: the separator appended without looking at the list. *)
ProgArgsAlways == <<Separator>> \o args.arg

(* Lines 32-34. *)
ProgArgs == IF args.arg # <<>> THEN <<Separator>> \o args.arg ELSE <<>>

(* Line 35. *)
EnvArgs == [i \in 1..Len(args.env) |-> EnvFlag \o args.env[i]]

(* Line 37. *)
DirArgs ==
    [i \in 1..Len(args.dir) |->
        MountFlag \o HostDir \o <<"/">> \o args.dir[i] \o <<":">> \o args.dir[i]]

(* A bug: the mount group ahead of the environment group. *)
AssembleProgMountFirst ==
    WAZERO[1] \o <<RunCmd, HostLogging>> \o DirArgs \o EnvArgs
        \o <<args.test_file[1]>> \o ProgArgs

(* Lines 39-46; TEST_FILE of line 30 is args.test_file. *)
AssembleProg ==
    WAZERO[1] \o <<RunCmd, HostLogging>> \o EnvArgs \o DirArgs
        \o <<args.test_file[1]>> \o ProgArgs

(* A bug: the version query handed the test file. *)
VersionCallWithTestFile ==
    [argv |-> WAZERO[1] \o <<VersionCmd>> \o args.test_file, cwd |-> None,
     capture_output |-> TRUE]

(* Lines 22-24: subprocess.run(WAZERO + ["version"], capture_output=True,  *)
(* text=True), in the adapter's own directory.                             *)
VersionCall ==
    [argv |-> WAZERO[1] \o <<VersionCmd>>, cwd |-> None, capture_output |-> TRUE]

(* Line 47: subprocess.run(PROG, cwd=TEST_DIR), streams inherited. *)
RunCall == [argv |-> PROG[1], cwd |-> TEST_DIR, capture_output |-> FALSE]

(* The child starts only if the process-launch primitive can enter the     *)
(* working directory asked for: chdir("") fails, so cwd="" raises          *)
(* FileNotFoundError before any child runs.                                *)
CanLaunch(call) == call.cwd # Some(<<>>)

(* sys.exit(n): the exit status a parent observes is the low 8 bits of n. *)
ExitStatus(code) == code % 256

(* A bug: the version child's returncode passed on. *)
VersionExitCodeOfChild(rc) == ExitStatus(rc)

(* A bug: the returncode reduced to success or failure. *)
RunExitCodeFlag(rc) == ExitStatus(IF rc = 0 THEN 0 ELSE 1)

(* Line 28: sys.exit(0), whatever the version child returned. *)
VersionExitCode(rc) == ExitStatus(0)

(* Line 47: sys.exit(<child>.returncode). *)
RunExitCode(rc) == ExitStatus(rc)

(* An exception nobody catches ends the interpreter with status 1. *)
FaultStatus == 1

(* The returncode subprocess reports: the child's exit status, or minus the *)
(* number of the signal that killed it.                                     *)
ReturnCodes == {0, 1, 2, 255, -9, -15}

-----------------------------------------------------------------------------
(* The inputs of one execution. *)

CfgChars == {"w", " ", "'", "\"", "\\"}
OutChars == {"d", "e", "v", " ", "\n"}
PathChars == {"/", "t", "a"}
ListEntries == {<<"a">>, <<"b">>}
Lists == Strings(ListEntries, MaxList)

Request(v, f, a, e, d) ==
    [version |-> v, test_file |-> f, arg |-> a, env |-> e, dir |-> d]

Inputs(cfgs, requests, dirs, outs) ==
    [environ : cfgs, args : requests, getcwd : dirs, target_stdout : outs]

TestFile == <<"t", "/", "a">>
Cwd == <<"/", "c">>

(* A few executions of every kind: both paths, a malformed and an empty    *)
(* configuration, a missing test file, a test file without a directory.    *)
BaseInputs ==
    Inputs({None, Some(<<>>), Some(<<"'">>), Some(<<"w", " ", "x">>)},
           {Request(v, f, a, <<>>, <<>>) :
                v \in BOOLEAN, f \in {None, Some(TestFile), Some(<<"a">>)},
                a \in {<<>>, <<<<"a">>>>}},
           {Cwd},
           {Dev \o <<"\n">>, <<"1">>})

(* Every combination of the three repeatable flags. *)
ListInputs ==
    Inputs({None, Some(<<"w", " ", "x">>)},
           {Request(v, Some(TestFile), a, e, d) :
                v \in BOOLEAN, a \in Lists, e \in Lists, d \in Lists},
           {Cwd, <<"/">>},
           {Dev \o <<"\n">>})

(* Every configuration string. *)
CfgInputs ==
    Inputs({None} \cup {Some(c) : c \in Strings(CfgChars, MaxCfgLen)},
           {Request(v, Some(TestFile), <<>>, <<>>, <<>>) : v \in BOOLEAN},
           {Cwd},
           {Dev \o <<"\n">>})

(* Every output of the version child. *)
OutInputs ==
    Inputs({None},
           {Request(TRUE, None, <<>>, <<>>, <<>>)},
           {Cwd},
           Strings(OutChars, MaxOutLen))

(* Every test file path. *)
PathInputs ==
    Inputs({None},
           {Request(FALSE, Some(f), <<>>, <<>>, <<<<"a">>>>) :
                f \in Strings(PathChars, MaxPathLen)},
           {Cwd},
           {Dev \o <<"\n">>})

-----------------------------------------------------------------------------
(* The state machine: the module body, top to bottom. *)

InitWith(inputs) ==
    /\ \E in \in inputs :
        /\ environ = in.environ
        /\ args = in.args
        /\ getcwd = in.getcwd
        /\ target_stdout = in.target_stdout
    /\ pc = "resolve"
    /\ WAZERO = None
    /\ TEST_DIR = None
    /\ PROG = None
    /\ calls = <<>>
    /\ launched = 0
    /\ returncode = None
    /\ stdout = <<>>
    /\ exitStatus = None

Init == InitWith(BaseInputs \cup ListInputs)
InitResolve == InitWith(BaseInputs \cup CfgInputs)
InitVersion == InitWith(BaseInputs \cup OutInputs)
InitPath == InitWith(BaseInputs \cup PathInputs)

inputVars == <<environ, args, getcwd, target_stdout>>

(* Line 10 succeeded. *)
ResolveTarget ==
    /\ pc = "resolve"
    /\ ResolveWazero(environ).ok
    /\ WAZERO' = Some(ResolveWazero(environ).tokens)
    /\ pc' = "branch"
    /\ UNCHANGED <<inputVars, TEST_DIR, PROG, calls, launched, returncode,
                   stdout, exitStatus>>

(* Line 10 raised ValueError: a quotation or an escape left open. *)
ResolveFault ==
    /\ pc = "resolve"
    /\ ~ResolveWazero(environ).ok
    /\ pc' = "fault"
    /\ exitStatus' = Some(FaultStatus)
    /\ UNCHANGED <<inputVars, WAZERO, TEST_DIR, PROG, calls, launched,
                   returncode, stdout>>

(* Lines 21-24: the version child is asked for. *)
QueryVersion ==
    /\ pc = "branch"
    /\ args.version
    /\ calls' = Append(calls, VersionCall)
    /\ pc' = "version_call"
    /\ UNCHANGED <<inputVars, WAZERO, TEST_DIR, PROG, launched, returncode,
                   stdout, exitStatus>>

(* Lines 22-28: the version child ran and ended; its output is stripped,   *)
(* normalized and printed, and the adapter exits.                          *)
ReportVersion ==
    /\ pc = "version_call"
    /\ CanLaunch(calls[Len(calls)])
    /\ \E rc \in ReturnCodes :
        /\ returncode' = Some(rc)
        /\ exitStatus' = Some(VersionExitCode(rc))
    /\ launched' = launched + 1
    /\ stdout' = stdout \o PrintVersion(NormalizeVersion(Strip(target_stdout)))
    /\ pc' = "done"
    /\ UNCHANGED <<inputVars, WAZERO, TEST_DIR, PROG, calls>>

(* Lines 30-46 with a test file. *)
Translate ==
    /\ pc = "branch"
    /\ ~args.version
    /\ args.test_file # None
    /\ TEST_DIR' = Some(Dirname(args.test_file[1]))
    /\ PROG' = Some(AssembleProg)
    /\ pc' = "run"
    /\ UNCHANGED <<inputVars, WAZERO, calls, launched, returncode, stdout,
                   exitStatus>>

(* Line 31 without a test file: os.path.dirname(None) raises TypeError. *)
TranslateFault ==
    /\ pc = "branch"
    /\ ~args.version
    /\ args.test_file = None
    /\ pc' = "fault"
    /\ exitStatus' = Some(FaultStatus)
    /\ UNCHANGED <<inputVars, WAZERO, TEST_DIR, PROG, calls, launched,
                   returncode, stdout>>

(* Line 47: the run child is asked for. *)
RunTest ==
    /\ pc = "run"
    /\ calls' = Append(calls, RunCall)
    /\ pc' = "run_call"
    /\ UNCHANGED <<inputVars, WAZERO, TEST_DIR, PROG, launched, returncode,
                   stdout, exitStatus>>

(* A bug: a failed run is tried again. *)
RunExitRetry ==
    /\ pc = "run_call"
    /\ CanLaunch(calls[Len(calls)])
    /\ \E rc \in ReturnCodes :
        /\ returncode' = Some(rc)
        /\ IF rc = 0
           THEN exitStatus' = Some(RunExitCode(rc)) /\ pc' = "done"
           ELSE exitStatus' = exitStatus /\ pc' = "run"
    /\ launched' = launched + 1
    /\ UNCHANGED <<inputVars, WAZERO, TEST_DIR, PROG, calls, stdout>>

(* Line 47: the run child ran and ended, and the adapter exits. *)
RunExit ==
    /\ pc = "run_call"
    /\ CanLaunch(calls[Len(calls)])
    /\ \E rc \in ReturnCodes :
        /\ returncode' = Some(rc)
        /\ exitStatus' = Some(RunExitCode(rc))
    /\ launched' = launched + 1
    /\ pc' = "done"
    /\ UNCHANGED <<inputVars, WAZERO, TEST_DIR, PROG, calls, stdout>>

(* Lines 22 and 47: subprocess.run raised (no such executable, no such     *)
(* working directory); nothing catches it.                                 *)
LaunchFault ==
    /\ pc \in {"version_call", "run_call"}
    /\ pc' = "fault"
    /\ exitStatus' = Some(FaultStatus)
    /\ UNCHANGED <<inputVars, WAZERO, TEST_DIR, PROG, calls, launched,
                   returncode, stdout>>

Next ==
    \/ ResolveTarget
    \/ ResolveFault
    \/ QueryVersion
    \/ ReportVersion
    \/ Translate
    \/ TranslateFault
    \/ RunTest
    \/ RunExit
    \/ LaunchFault

Spec == Init /\ [][Next]_vars
SpecResolve == InitResolve /\ [][Next]_vars
SpecVersion == InitVersion /\ [][Next]_vars
SpecPath == InitPath /\ [][Next]_vars

-----------------------------------------------------------------------------
(* Properties. *)

Max(S) == CHOOSE m \in S : \A k \in S : k <= m

(* Where the groups of the run-form vector start. *)
EnvBase == Len(WAZERO[1]) + 2
DirBase == EnvBase + Len(args.env)
FilePos == DirBase + Len(args.dir) + 1

HasPrefix(t, prefix) ==
    Len(t) >= Len(prefix) /\ SubSeq(t, 1, Len(prefix)) = prefix

HasSuffix(t, suffix) ==
    Len(t) >= Len(suffix) /\ SubSeq(t, Len(t) - Len(suffix) + 1, Len(t)) = suffix

IsVersionForm(call) == call.argv = WAZERO[1] \o <<VersionCmd>>

IsRunForm(call) ==
    /\ Len(call.argv) > Len(WAZERO[1])
    /\ call.argv[Len(WAZERO[1]) + 1] = RunCmd

(* C1: in the run path the child argument vector is the target tokens, *)
(* `run`, `-hostlogging=filesystem`, one -env= token per --env in order, *)
(* one -mount= token per --dir in order, the test file, then the *)
(* program-args group; nothing is dropped, duplicated or reordered. *)
C1_ChildVectorOrder ==
    PROG # None =>
        LET v == PROG[1]
            T == WAZERO[1]
            nA == Len(args.arg)
        IN  /\ Len(v) = FilePos + (IF nA = 0 THEN 0 ELSE nA + 1)
            /\ \A i \in 1..Len(T) : v[i] = T[i]
            /\ v[Len(T) + 1] = RunCmd
            /\ v[Len(T) + 2] = HostLogging
            /\ \A i \in 1..Len(args.env) : v[EnvBase + i] = EnvFlag \o args.env[i]
            /\ \A i \in 1..Len(args.dir) :
                /\ HasPrefix(v[DirBase + i], MountFlag)
                /\ HasSuffix(v[DirBase + i], <<":">> \o args.dir[i])
            /\ v[FilePos] = args.test_file[1]
            /\ \A i \in 1..nA : v[Len(v) - nA + i] = args.arg[i]
            /\ \A k \in 1..Len(calls) : calls[k].argv = v

C1_Witness ==
    /\ pc = "run_call"
    /\ Len(WAZERO[1]) = 2
    /\ Len(args.env) = 2 /\ args.env[1] # args.env[2]
    /\ Len(args.dir) = 2 /\ args.dir[1] # args.dir[2]
    /\ Len(args.arg) = 2 /\ args.arg[1] # args.arg[2]
    /\ calls[1].argv = PROG[1]

(* C2, as claimed: in the run path the adapter's exit code is the child's *)
(* exit code for every value, negative (signal-derived) ones included. *)
C2_ExitCodeVerbatim ==
    (pc = "done" /\ ~args.version) => exitStatus = returncode

(* C2, amended: the adapter's exit status is the child's returncode when *)
(* that is in 0..255, and 256 - N when the child was killed by signal N *)
(* (returncode -N). *)
C2_ExitCodeLow8Bits ==
    (pc = "done" /\ ~args.version) =>
        LET rc == returncode[1]
        IN  /\ rc \in 0..255 => exitStatus = Some(rc)
            /\ rc < 0 => exitStatus = Some(256 + rc)

C2_Witness ==
    /\ pc = "done"
    /\ ~args.version
    /\ returncode = Some(-9)
    /\ exitStatus = Some(247)

(* C3: with version_query set no run-form child is asked for and *)
(* test_file, program_args, env_vars and mount_dirs are never read: the *)
(* call made, the output and the exit code depend on none of them. *)
C3_VersionIgnoresRequest ==
    args.version =>
        /\ TEST_DIR = None
        /\ PROG = None
        /\ \A k \in 1..Len(calls) :
            calls[k] = [argv |-> WAZERO[1] \o <<VersionCmd>>, cwd |-> None,
                        capture_output |-> TRUE]
        /\ pc = "done" =>
            /\ stdout = PrintVersion(NormalizeVersion(Strip(target_stdout)))
            /\ exitStatus = Some(0)

C3_Witness ==
    /\ pc = "done"
    /\ args.version
    /\ args.test_file # None
    /\ Len(args.arg) = 2
    /\ Len(args.env) = 2
    /\ Len(args.dir) = 2
    /\ Len(calls) = 1

(* v is s without its leading and trailing whitespace. *)
IsStripped(v, s) ==
    \E i \in 0..Len(s), j \in 0..Len(s) :
        /\ i + j <= Len(s)
        /\ v = SubSeq(s, i + 1, Len(s) - j)
        /\ \A k \in 1..i : s[k] \in StrWhitespace
        /\ \A k \in (Len(s) - j + 1)..Len(s) : s[k] \in StrWhitespace
        /\ v # <<>> => (v[1] \notin StrWhitespace /\ v[Len(v)] \notin StrWhitespace)

(* C4: the version path runs `<target> version`, strips the captured *)
(* output to v and prints `wazero ` followed by 0.0.0 when v is exactly *)
(* `dev`, and by v unchanged otherwise. *)
C4_VersionLine ==
    (pc = "done" /\ args.version) =>
        /\ calls[1].argv = WAZERO[1] \o <<VersionCmd>>
        /\ \E n \in 0..Len(target_stdout) :
            \E v \in {SubSeq(target_stdout, i, i + n - 1) :
                        i \in 1..(Len(target_stdout) - n + 1)} :
                /\ IsStripped(v, target_stdout)
                /\ stdout = Wazero \o <<" ">>
                        \o (IF v = <<"d", "e", "v">> THEN ZeroVersion ELSE v)
                        \o <<"\n">>

C4_Witness ==
    /\ pc = "done"
    /\ args.version
    /\ target_stdout = <<" ", "d", "e", "v", "\n">>
    /\ stdout = Wazero \o <<" ", "0", ".", "0", ".", "0", "\n">>

(* C5: an unset and also an empty configuration string resolve to the *)
(* single default token `wazero`; every other string to its shell-quoting *)
(* tokenization. *)
C5_EmptyOrUnsetIsDefault ==
    /\ (environ = None \/ environ = Some(<<>>)) => pc # "fault"
    /\ WAZERO # None =>
        IF environ = None \/ environ = Some(<<>>)
        THEN WAZERO = Some(<<Wazero>>)
        ELSE WAZERO = Some(ShlexSplit(environ[1]).tokens)

(* C6: with no program_args the vector ends with the test file; otherwise *)
(* the test file is followed by one `--` and the program_args in order. *)
C6_ProgramArgsGroup ==
    PROG # None =>
        LET v == PROG[1]
        IN  /\ Len(v) >= FilePos
            /\ v[FilePos] = args.test_file[1]
            /\ IF args.arg = <<>>
               THEN Len(v) = FilePos
               ELSE SubSeq(v, FilePos + 1, Len(v)) = <<Separator>> \o args.arg

C6_Witness ==
    /\ pc = "run_call"
    /\ args.arg = <<<<"a">>, <<"b">>>>
    /\ SubSeq(PROG[1], Len(PROG[1]) - 2, Len(PROG[1])) = <<Separator, <<"a">>, <<"b">>>>

(* C7: every --dir d becomes the one token -mount=<cwd>/<d>:<d>, <cwd> the *)
(* adapter's own working directory, in order, after the -env= group. *)
C7_MountTokens ==
    PROG # None =>
        /\ \A i \in 1..Len(args.dir) :
            PROG[1][DirBase + i] =
                MountFlag \o getcwd \o <<"/">> \o args.dir[i] \o <<":">> \o args.dir[i]
        /\ Cardinality({k \in 1..(FilePos - 1) : HasPrefix(PROG[1][k], MountFlag)})
                = Len(args.dir)
        /\ \A k \in 1..(FilePos - 1) :
            HasPrefix(PROG[1][k], EnvFlag) => k <= DirBase

C7_Witness ==
    /\ pc = "run_call"
    /\ Len(args.env) = 2
    /\ args.dir = <<<<"a">>, <<"b">>>>
    /\ getcwd # TEST_DIR[1]
    /\ PROG[1][DirBase + 2] = <<"-", "m", "o", "u", "n", "t", "=", "/", "c", "/", "b", ":", "b">>

(* C8: an execution asks for at most one child, the version form only *)
(* with version_query and the run form only without it, and exits after *)
(* that child ended without asking for another. *)
C8_AtMostOneChild ==
    /\ Len(calls) <= 1
    /\ launched <= Len(calls)
    /\ \A k \in 1..Len(calls) :
        /\ IsVersionForm(calls[k]) <=> args.version
        /\ IsRunForm(calls[k]) <=> ~args.version
    /\ pc = "done" => launched = 1

C8_Witness ==
    /\ pc = "done"
    /\ ~args.version
    /\ launched = 1
    /\ returncode = Some(1)

(* The text of f before its last separator, empty without a separator. *)
BeforeLastSeparator(f) ==
    LET seps == {k \in 1..Len(f) : f[k] = "/"}
    IN  IF seps = {} THEN <<>> ELSE SubSeq(f, 1, Max(seps) - 1)

(* The directory portion: the text up to the last separator, its trailing *)
(* separators removed unless it holds nothing but separators. *)
DirectoryPortion(f) ==
    LET seps == {k \in 1..Len(f) : f[k] = "/"}
        head == IF seps = {} THEN <<>> ELSE SubSeq(f, 1, Max(seps))
        names == {k \in 1..Len(head) : head[k] # "/"}
    IN  IF names = {} THEN head ELSE SubSeq(head, 1, Max(names))

(* C9, as claimed: the run child's working directory is everything before *)
(* the last path separator of test_file, and the test_file token is the *)
(* string as supplied. *)
C9_DirBeforeLastSeparator ==
    \A k \in 1..Len(calls) :
        ~args.version =>
            /\ calls[k].cwd = Some(BeforeLastSeparator(args.test_file[1]))
            /\ calls[k].argv[FilePos] = args.test_file[1]

(* C9, amended: the working directory asked for is the directory portion *)
(* of test_file, which keeps a root made only of separators and drops *)
(* further trailing separators; a child starts only when it is not empty; *)
(* the test_file token is the string as supplied. *)
C9_DirIsDirectoryPortion ==
    \A k \in 1..Len(calls) :
        ~args.version =>
            /\ calls[k].cwd = Some(DirectoryPortion(args.test_file[1]))
            /\ calls[k].argv[FilePos] = args.test_file[1]
            /\ launched = 1 => DirectoryPortion(args.test_file[1]) # <<>>

C9_Witness ==
    /\ pc = "done"
    /\ args.test_file = Some(<<"/", "a">>)
    /\ calls[1].cwd = Some(<<"/">>)
    /\ calls[1].argv[FilePos] = <<"/", "a">>

(* C10: the version path exits with 0 whatever the version child returned *)
(* and wrote; with nothing written it prints `wazero ` and an empty *)
(* version. *)
C10_VersionExitsZero ==
    (pc = "done" /\ args.version) =>
        /\ exitStatus = Some(0)
        /\ (\A k \in 1..Len(target_stdout) : target_stdout[k] \in StrWhitespace)
                => stdout = Wazero \o <<" ", "\n">>

C10_Witness ==
    /\ pc = "done"
    /\ args.version
    /\ target_stdout = <<>>
    /\ returncode = Some(1)
    /\ exitStatus = Some(0)
    /\ stdout = Wazero \o <<" ", "\n">>

=============================================================================
